---- MODULE Spec2Model ----
(***************************************************************************)
(* Model of src/index.ts: the Snowflake codec (generate, parse, isValid,   *)
(* extractBits, binary) and its three static fields.                       *)
(*                                                                         *)
(* Representation.                                                         *)
(*   string  : a sequence of one-character strings, <<"4","2">> is "42".   *)
(*   bigint  : [neg |-> BOOLEAN, mag |-> bits], bits the magnitude in      *)
(*             base 2, most significant first, no leading zero; 0n has     *)
(*             mag = <<>> and neg = FALSE.  Unbounded, as a BigInt is.     *)
(*   number  : [k |-> "int" | "frac" | "nan", v |-> integer part].         *)
(*             "frac" stands for v + 0.5 (v >= 0), "nan" for NaN.  The     *)
(*             shard id argument and the sequence counter carry an         *)
(*             integer in v; time values and the fields parse returns      *)
(*             carry a bigint, since they do not fit 32 bits.              *)
(*                                                                         *)
(* A value an operator uses more than once is passed to a helper as an     *)
(* argument rather than named in a LET: TLC evaluates an argument once     *)
(* and a LET definition at every use.                                      *)
(***************************************************************************)
EXTENDS Integers, Sequences, FiniteSets, TLC

\* ------------------------------------------------------------------------
\* Digit sequences and radix conversion
\* ------------------------------------------------------------------------

Max(a, b) == IF a >= b THEN a ELSE b

Least(S) == CHOOSE i \in S : \A j \in S : i <= j
Greatest(S) == CHOOSE i \in S : \A j \in S : i >= j

Zeros(n) == [i \in 1..n |-> 0]

\* s from the first of the positions keep, s between the first and the last
DropBefore(s, keep) ==
  IF keep = {} THEN <<>> ELSE SubSeq(s, Least(keep), Len(s))
Between(s, keep) ==
  IF keep = {} THEN <<>> ELSE SubSeq(s, Least(keep), Greatest(keep))

StripZeros(ds) == DropBefore(ds, {i \in 1..Len(ds) : ds[i] # 0})

Pad(ds, w) == Zeros(w - Len(ds)) \o ds

\* n written with exactly w digits of the given radix, most significant first
NatToDigits(n, radix, w) == [i \in 1..w |-> (n \div radix^(w - i)) % radix]

\* the number a short digit sequence denotes
RECURSIVE DigitsToNat(_, _)
DigitsToNat(ds, radix) ==
  IF Len(ds) = 0 THEN 0
  ELSE IF Len(ds) = 1 THEN ds[1]
  ELSE LET h == Len(ds) \div 2
       IN  DigitsToNat(SubSeq(ds, 1, h), radix) * radix^(Len(ds) - h)
           + DigitsToNat(SubSeq(ds, h + 1, Len(ds)), radix)

\* the same number with every g digits taken as one digit of radix^g, and back
Chunks(p, radix, g) ==
  [i \in 1..(Len(p) \div g) |->
     DigitsToNat(SubSeq(p, (i - 1) * g + 1, i * g), radix)]

Group(ds, radix, g) ==
  Chunks(Pad(ds, ((Len(ds) + g - 1) \div g) * g), radix, g)

Ungroup(gs, radix, g) ==
  [i \in 1..(Len(gs) * g) |->
     (gs[(i - 1) \div g + 1] \div radix^(g - 1 - ((i - 1) % g))) % radix]

\* schoolbook division of a digit sequence by a small divisor d
RECURSIVE DivLoop(_, _, _, _, _, _)
DivLoop(ds, radix, d, i, q, r) ==
  IF i > Len(ds) THEN [q |-> q, r |-> r]
  ELSE LET cur == r * radix + ds[i]
       IN  DivLoop(ds, radix, d, i + 1, Append(q, cur \div d), cur % d)

DivDigits(ds, radix, d) == DivLoop(ds, radix, d, 1, <<>>, 0)

\* the digits of the same number in another radix; zero is the empty sequence
RECURSIVE Radix(_, _, _)
RadixStep(dv, from, to) == Append(Radix(StripZeros(dv.q), from, to), dv.r)
Radix(s, from, to) ==
  IF s = <<>> THEN <<>> ELSE RadixStep(DivDigits(s, from, to), from, to)

\* decimal digits <-> bits, through digits of 10^4 and of 2^16
MagFromDecimal(ds) ==
  StripZeros(Ungroup(Radix(StripZeros(Group(ds, 10, 4)), 10000, 65536), 2, 16))
MagToDecimal(mag) ==
  StripZeros(Ungroup(Radix(StripZeros(Group(mag, 2, 16)), 65536, 10000), 10, 4))

\* digits of radix 2^m (hexadecimal, octal, binary) -> bits
MagFromPow2(ds, m) == StripZeros(Ungroup(ds, 2, m))

\* ------------------------------------------------------------------------
\* BigInt arithmetic (lines 64-66 and 82 of index.ts)
\* ------------------------------------------------------------------------

Invert(bits) == [i \in 1..Len(bits) |-> 1 - bits[i]]

\* a + b + carry and a - b - borrow on 16-bit limbs, least significant last
RECURSIVE AddLimbs(_, _, _, _, _)
AddLimbs(a, b, i, carry, acc) ==
  IF i = 0 THEN <<carry>> \o acc
  ELSE LET s == a[i] + b[i] + carry
       IN  AddLimbs(a, b, i - 1, s \div 65536, <<s % 65536>> \o acc)

RECURSIVE SubLimbs(_, _, _, _, _)
SubLimbs(a, b, i, borrow, acc) ==
  IF i = 0 THEN acc
  ELSE LET s == a[i] - b[i] - borrow
       IN  SubLimbs(a, b, i - 1, IF s < 0 THEN 1 ELSE 0,
                    <<IF s < 0 THEN s + 65536 ELSE s>> \o acc)

LimbWidth(a, b) == ((Max(Len(a), Len(b)) + 15) \div 16) * 16

LimbsOf(a, w) == Group(Pad(a, w), 2, 16)

MagAdd(a, b) ==
  StripZeros(Ungroup(AddLimbs(LimbsOf(a, LimbWidth(a, b)),
                              LimbsOf(b, LimbWidth(a, b)),
                              LimbWidth(a, b) \div 16, 0, <<>>), 2, 16))

\* a - b for magnitudes with a >= b
MagSub(a, b) ==
  StripZeros(Ungroup(SubLimbs(LimbsOf(a, LimbWidth(a, b)),
                              LimbsOf(b, LimbWidth(a, b)),
                              LimbWidth(a, b) \div 16, 0, <<>>), 2, 16))

LessAt(a, b, d) == d # {} /\ a[Least(d)] < b[Least(d)]

MagLess(a, b) ==
  IF Len(a) # Len(b) THEN Len(a) < Len(b)
  ELSE LessAt(a, b, {i \in 1..Len(a) : a[i] # b[i]})

Big(neg, mag) == [neg |-> neg /\ mag # <<>>, mag |-> mag]

BigZero == Big(FALSE, <<>>)

BigNegate(x) == Big(~x.neg, x.mag)

BigAdd(x, y) ==
  IF x.neg = y.neg THEN Big(x.neg, MagAdd(x.mag, y.mag))
  ELSE IF MagLess(x.mag, y.mag) THEN Big(y.neg, MagSub(y.mag, x.mag))
  ELSE Big(x.neg, MagSub(x.mag, y.mag))

BigSub(x, y) == BigAdd(x, BigNegate(y))

BigLess(x, y) == BigSub(x, y).neg

\* x << n
BigShl(x, n) == Big(x.neg, IF x.mag = <<>> THEN <<>> ELSE x.mag \o Zeros(n))

MagShr(mag, n) == IF Len(mag) <= n THEN <<>> ELSE SubSeq(mag, 1, Len(mag) - n)

\* x >> n, rounding toward minus infinity as BigInt's >> does
BigShr(x, n) ==
  IF ~x.neg THEN Big(FALSE, MagShr(x.mag, n))
  ELSE Big(TRUE, MagAdd(MagShr(MagSub(x.mag, <<1>>), n), <<1>>))

\* two's complement of x on w bits (w larger than the width of x)
TwosComplement(x, w) ==
  IF ~x.neg THEN Pad(x.mag, w) ELSE Invert(Pad(MagSub(x.mag, <<1>>), w))

\* x | y on the infinite two's complement representation
OrBits(a, b) == [i \in 1..Len(a) |-> IF a[i] = 1 \/ b[i] = 1 THEN 1 ELSE 0]

FromTwosComplement(r) ==
  IF r[1] = 0 THEN Big(FALSE, StripZeros(r))
  ELSE Big(TRUE, MagAdd(StripZeros(Invert(r)), <<1>>))

BigOr(x, y) ==
  FromTwosComplement(
    OrBits(TwosComplement(x, Max(Len(x.mag), Len(y.mag)) + 1),
           TwosComplement(y, Max(Len(x.mag), Len(y.mag)) + 1)))

\* a small integer as a bigint
BigOfInt(n) ==
  IF n >= 0 THEN Big(FALSE, StripZeros(NatToDigits(n, 2, 31)))
  ELSE Big(TRUE, StripZeros(NatToDigits(-n, 2, 31)))

\* a decimal literal (digit values) as a bigint
BigOfDecimal(ds) == Big(FALSE, MagFromDecimal(ds))

\* ------------------------------------------------------------------------
\* Strings and the built-in conversions the codec calls
\* ------------------------------------------------------------------------

HexLower == <<"0", "1", "2", "3", "4", "5", "6", "7", "8", "9",
              "a", "b", "c", "d", "e", "f">>
HexUpper == <<"0", "1", "2", "3", "4", "5", "6", "7", "8", "9",
              "A", "B", "C", "D", "E", "F">>

WhiteSpace == {" ", "\t", "\n"}

\* value of a character as a digit, 99 when it is none
CharVal(c) ==
  IF \E i \in 1..16 : HexLower[i] = c
    THEN (CHOOSE i \in 1..16 : HexLower[i] = c) - 1
  ELSE IF \E i \in 1..16 : HexUpper[i] = c
    THEN (CHOOSE i \in 1..16 : HexUpper[i] = c) - 1
  ELSE 99

IsDigit(c, radix) == CharVal(c) < radix

AllDigits(s, radix) == \A i \in 1..Len(s) : IsDigit(s[i], radix)

DigitVals(s) == [i \in 1..Len(s) |-> CharVal(s[i])]

DigitChars(ds) == [i \in 1..Len(ds) |-> HexLower[ds[i] + 1]]

Rep(n, c) == [i \in 1..n |-> c]

\* the positions of s that hold no white space
Inked(s) == {i \in 1..Len(s) : s[i] \notin WhiteSpace}

TrimLeft(s) == DropBefore(s, Inked(s))

Trim(s) == Between(s, Inked(s))

Clamp(i, n) == IF i < 0 THEN 0 ELSE IF i > n THEN n ELSE i

\* String.prototype.substring(a, b) on 0-based offsets
Substring(s, a, b) ==
  LET x == Clamp(a, Len(s))
      y == Clamp(b, Len(s))
  IN  IF x <= y THEN SubSeq(s, x + 1, y) ELSE SubSeq(s, y + 1, x)

\* String.prototype.substring(a)
SubstringFrom(s, a) == Substring(s, a, Len(s))

Threw == [threw |-> TRUE]
Ret(v) == [threw |-> FALSE, val |-> v]

\* the digits of a literal as a bigint, a SyntaxError when they are none
Literal(neg, body, m) ==
  IF body = <<>> \/ ~AllDigits(body, IF m = 0 THEN 10 ELSE 2^m) THEN Threw
  ELSE Ret(Big(neg, IF m = 0 THEN MagFromDecimal(DigitVals(body))
                    ELSE MagFromPow2(DigitVals(body), m)))

\* StringIntegerLiteral with the empty text refused
StringIntegerLiteral_EmptyThrows(t) ==
  IF t = <<>> THEN Threw
  ELSE IF Len(t) >= 2 /\ t[1] = "0" /\ t[2] \in {"x", "X"}
    THEN Literal(FALSE, SubSeq(t, 3, Len(t)), 4)
  ELSE IF Len(t) >= 2 /\ t[1] = "0" /\ t[2] \in {"o", "O"}
    THEN Literal(FALSE, SubSeq(t, 3, Len(t)), 3)
  ELSE IF Len(t) >= 2 /\ t[1] = "0" /\ t[2] \in {"b", "B"}
    THEN Literal(FALSE, SubSeq(t, 3, Len(t)), 1)
  ELSE IF t[1] \in {"+", "-"} THEN Literal(t[1] = "-", Tail(t), 0)
  ELSE Literal(FALSE, t, 0)

\* StringIntegerLiteral on the trimmed text t: empty, 0x.. 0o.. 0b.., or an
\* optionally signed decimal
StringIntegerLiteral(t) ==
  IF t = <<>> THEN Ret(BigZero)
  ELSE IF Len(t) >= 2 /\ t[1] = "0" /\ t[2] \in {"x", "X"}
    THEN Literal(FALSE, SubSeq(t, 3, Len(t)), 4)
  ELSE IF Len(t) >= 2 /\ t[1] = "0" /\ t[2] \in {"o", "O"}
    THEN Literal(FALSE, SubSeq(t, 3, Len(t)), 3)
  ELSE IF Len(t) >= 2 /\ t[1] = "0" /\ t[2] \in {"b", "B"}
    THEN Literal(FALSE, SubSeq(t, 3, Len(t)), 1)
  ELSE IF t[1] \in {"+", "-"} THEN Literal(t[1] = "-", Tail(t), 0)
  ELSE Literal(FALSE, t, 0)

\* BigInt(string): StringToBigInt, a SyntaxError when the text is no literal
StringToBigInt(s) == StringIntegerLiteral(Trim(s))

\* BigInt.prototype.toString(radix) for radix 2 and 10
BigToString(x, radix) ==
  IF x.mag = <<>> THEN <<"0">>
  ELSE (IF x.neg THEN <<"-">> ELSE <<>>)
       \o DigitChars(IF radix = 2 THEN x.mag ELSE MagToDecimal(x.mag))

\* NaN among the small numbers and among the others; an integer; an
\* integer + 0.5
NaN == [k |-> "nan", v |-> 0]
TimeNaN == [k |-> "nan", v |-> BigZero]
IntNum(n) == [k |-> "int", v |-> n]
FracNum(n) == [k |-> "frac", v |-> n]

\* the longest prefix of s made of digits of the radix
PrefixBefore(s, bad) == IF bad = {} THEN s ELSE SubSeq(s, 1, Least(bad) - 1)
DigitPrefix(s, radix) ==
  PrefixBefore(s, {i \in 1..Len(s) : ~IsDigit(s[i], radix)})

ParseDigits(neg, ds, radix) ==
  IF ds = <<>> THEN TimeNaN
  ELSE IntNum(Big(neg, IF radix = 2 THEN MagFromPow2(DigitVals(ds), 1)
                       ELSE MagFromDecimal(DigitVals(ds))))

ParseSigned(t, radix) ==
  IF t # <<>> /\ t[1] \in {"+", "-"}
    THEN ParseDigits(t[1] = "-", DigitPrefix(Tail(t), radix), radix)
    ELSE ParseDigits(FALSE, DigitPrefix(t, radix), radix)

\* parseInt(string, radix): the longest digit prefix after blanks and a sign
ParseInt(s, radix) == ParseSigned(TrimLeft(s), radix)

\* BigInt(number): a RangeError unless the number is an integer
BigIntOfNumber(n) == IF n.k = "int" THEN Ret(n.v) ELSE Threw
BigIntOfSmall(n) == IF n.k = "int" THEN Ret(BigOfInt(n.v)) ELSE Threw

\* Number(bigint): the nearest double, ties to even (53 significant bits)
RoundUp(top, rest) ==
  rest[1] = 1 /\ (top[53] = 1 \/ \E i \in 2..Len(rest) : rest[i] = 1)

Rounded(top, rest) ==
  (IF RoundUp(top, rest) THEN MagAdd(top, <<1>>) ELSE top) \o Zeros(Len(rest))

NumberOfBigInt(x) ==
  IF Len(x.mag) <= 53 THEN IntNum(x)
  ELSE IntNum(Big(x.neg, Rounded(SubSeq(x.mag, 1, 53),
                                 SubSeq(x.mag, 54, Len(x.mag)))))

\* number % m for a small number, the remainder taking the dividend's sign
Remainder(n, m) ==
  IF n.k = "nan" THEN NaN
  ELSE [k |-> n.k, v |-> IF n.v >= 0 THEN n.v % m ELSE -((-n.v) % m)]

\* the largest time value a Date holds, 8.64e15 ms
MaxTimeValue == BigOfDecimal(<<8, 6, 4>> \o Zeros(13))

\* TimeClip: the time value new Date(number) stores
TimeClip(n) ==
  IF n.k = "nan" THEN TimeNaN
  ELSE IF BigLess(MaxTimeValue, Big(FALSE, n.v.mag)) THEN TimeNaN
  ELSE IntNum(n.v)

\* an omitted argument: a time (timestamp, epoch) and a shard id
Undefined == [kind |-> "undefined", n |-> TimeNaN]
NoShard == [kind |-> "undefined", n |-> NaN]
NumberArg(n) == [kind |-> "number", n |-> n]
DateArg(n) == [kind |-> "Date", n |-> n]

\* x instanceof Date ? x.valueOf() : new Date(x).valueOf()
TimeValueOf(arg) == IF arg.kind = "Date" THEN arg.n ELSE TimeClip(arg.n)

\* ------------------------------------------------------------------------
\* The codec
\* ------------------------------------------------------------------------

VARIABLES
  SEQUENCE,   \* static SEQUENCE
  SHARD_ID,   \* static SHARD_ID
  EPOCH,      \* static EPOCH
  calls,      \* history: number of generate calls made
  returned,   \* history: number of generate calls that returned
  first,      \* history: the identifiers the first KeepFirst calls returned
  gen,        \* the last generate call: arguments and outcome
  par,        \* the last parse call: arguments and outcome
  val,        \* the last isValid call: argument and outcome
  fixed       \* the arguments a caller repeats (the fixed-argument runs)

vars ==
  <<SEQUENCE, SHARD_ID, EPOCH, calls, returned, first, gen, par, val, fixed>>

\* the argument, or the default that stands in for an omitted one
OrDefault(arg, default) == IF arg.kind = "undefined" THEN default ELSE arg

\* Packed with the counter advanced before the conversions are tried
Packed_CountFirst(t, e, s, q) ==
  IF t.threw \/ e.threw \/ s.threw
    THEN [threw |-> TRUE, val |-> <<>>, SEQUENCE |-> SEQUENCE + 1]
    ELSE [threw |-> FALSE,
          val |-> BigToString(
                    BigOr(BigOr(BigShl(BigSub(t.val, e.val), 22),
                                BigShl(s.val, 12)),
                          q.val),
                    10),
          SEQUENCE |-> SEQUENCE + 1]

\* Packed with the shard id shifted by 10 instead of 12
Packed_Shift10(t, e, s, q) ==
  IF t.threw \/ e.threw \/ s.threw
    THEN [threw |-> TRUE, val |-> <<>>, SEQUENCE |-> SEQUENCE]
    ELSE [threw |-> FALSE,
          val |-> BigToString(
                    BigOr(BigOr(BigShl(BigSub(t.val, e.val), 22),
                                BigShl(s.val, 10)),
                          q.val),
                    10),
          SEQUENCE |-> SEQUENCE + 1]

\* Packed with line 66 counting without writing the sequence bits
Packed_DropSequence(t, e, s, q) ==
  IF t.threw \/ e.threw \/ s.threw
    THEN [threw |-> TRUE, val |-> <<>>, SEQUENCE |-> SEQUENCE]
    ELSE [threw |-> FALSE,
          val |-> BigToString(
                    BigOr(BigShl(BigSub(t.val, e.val), 22), BigShl(s.val, 12)),
                    10),
          SEQUENCE |-> SEQUENCE + 1]

\* lines 64-68 on the converted arguments: the outcome, and the value
\* SEQUENCE has afterwards
Packed(t, e, s, q) ==
  IF t.threw \/ e.threw \/ s.threw
    THEN [threw |-> TRUE, val |-> <<>>, SEQUENCE |-> SEQUENCE]
    ELSE [threw |-> FALSE,
          val |-> BigToString(
                    BigOr(BigOr(BigShl(BigSub(t.val, e.val), 22),
                                BigShl(s.val, 12)),
                          q.val),
                    10),
          SEQUENCE |-> SEQUENCE + 1]

\* generate with ++SEQUENCE in place of SEQUENCE++
generate_PreIncrement(timestamp, shard_id, epoch, now) ==
  Packed(
    BigIntOfNumber(TimeValueOf(OrDefault(timestamp, NumberArg(IntNum(now))))),
    BigIntOfNumber(
      TimeValueOf(OrDefault(epoch, NumberArg(IntNum(BigOfInt(EPOCH)))))),
    BigIntOfSmall(
      Remainder(OrDefault(shard_id, NumberArg(IntNum(SHARD_ID))).n, 1024)),
    BigIntOfSmall(Remainder(IntNum(SEQUENCE + 1), 4096)))

\* generate, lines 48-69
generate(timestamp, shard_id, epoch, now) ==
  Packed(
    BigIntOfNumber(TimeValueOf(OrDefault(timestamp, NumberArg(IntNum(now))))),
    BigIntOfNumber(
      TimeValueOf(OrDefault(epoch, NumberArg(IntNum(BigOfInt(EPOCH)))))),
    BigIntOfSmall(
      Remainder(OrDefault(shard_id, NumberArg(IntNum(SHARD_ID))).n, 1024)),
    BigIntOfSmall(Remainder(IntNum(SEQUENCE), 4096)))

cached64BitZeros == Rep(64, "0")

\* lines 134-136
Padded(binValue) ==
  IF Len(binValue) < 64
    THEN Substring(cached64BitZeros, 0, 64 - Len(binValue)) \o binValue
    ELSE binValue

BinaryOf(b) == IF b.threw THEN Threw ELSE Ret(Padded(BigToString(b.val, 2)))

\* binary, lines 130-137
binary(snowflake) == BinaryOf(StringToBigInt(snowflake))

BitsOf(b, start, length) ==
  IF b.threw THEN Threw
  ELSE Ret(ParseInt(IF length # 0
                      THEN Substring(b.val, start, start + length)
                      ELSE SubstringFrom(b.val, start),
                    2))

\* extractBits, lines 110-121; length 0 is the omitted (falsy) length
extractBits(snowflake, start, length) ==
  BitsOf(binary(snowflake), start, length)

\* Deconstructed with the epoch left out of the timestamp
Deconstructed_NoEpoch(snowflake, bin, e) ==
  IF bin.threw \/ e.threw THEN Threw
  ELSE Ret([timestamp |->
              NumberOfBigInt(BigShr(StringToBigInt(snowflake).val, 22)),
            shard_id |-> extractBits(snowflake, 42, 10).val,
            sequence |-> extractBits(snowflake, 52, 0).val,
            binary |-> bin.val])

\* lines 79-87 on the binary text and the converted epoch
Deconstructed(snowflake, bin, e) ==
  IF bin.threw \/ e.threw THEN Threw
  ELSE Ret([timestamp |->
              NumberOfBigInt(
                BigAdd(BigShr(StringToBigInt(snowflake).val, 22), e.val)),
            shard_id |-> extractBits(snowflake, 42, 10).val,
            sequence |-> extractBits(snowflake, 52, 0).val,
            binary |-> bin.val])

\* parse, lines 78-88
parse(snowflake, epoch) ==
  Deconstructed(
    snowflake,
    binary(snowflake),
    BigIntOfNumber(
      TimeValueOf(OrDefault(epoch, NumberArg(IntNum(BigOfInt(EPOCH)))))))

\* the pattern without its upper limit, /^[\d]{17,}$/
RegexTest_NoUpper(snowflake) ==
  Len(snowflake) >= 17 /\ AllDigits(snowflake, 10)

\* /^[\d]{17,22}$/.test(snowflake)
RegexTest(snowflake) ==
  Len(snowflake) \in 17..22 /\ AllDigits(snowflake, 10)

\* isValid, lines 90-100
isValid(snowflake) ==
  IF ~RegexTest(snowflake) THEN Ret(FALSE)
  ELSE IF parse(snowflake, Undefined).threw THEN Ret(FALSE)
  ELSE Ret(TRUE)

\* ------------------------------------------------------------------------
\* Bounds
\* ------------------------------------------------------------------------

MaxCalls == 2      \* generate calls in a run of Spec
RoundCalls == 3    \* generate calls in a run of SpecRoundTrip
SeqCalls == 4100   \* generate calls in a run of SpecSeq
KeepFirst == 3     \* how many of the first identifiers the history keeps
MaxLen == 23       \* longest generated input string of SpecParse

Pow2(n) == Big(FALSE, <<1>> \o Zeros(n))

\* 2020-01-01T00:00:00Z in milliseconds
Epoch2020 == BigOfDecimal(<<1, 5, 7, 7, 8, 3, 6, 8, 0, 0, 0, 0, 0>>)

Str(ds) == DigitChars(ds)

NoGen == [called |-> FALSE, timestamp |-> Undefined, shard_id |-> NoShard,
          epoch |-> Undefined, now |-> BigZero, seq |-> 0, threw |-> FALSE,
          id |-> <<>>]
NoPar == [called |-> FALSE, snowflake |-> <<>>, epoch |-> Undefined,
          threw |-> FALSE, timestamp |-> TimeNaN, shard_id |-> TimeNaN,
          sequence |-> TimeNaN, binary |-> <<>>]
NoVal == [called |-> FALSE, snowflake |-> <<>>, threw |-> FALSE,
          result |-> FALSE]
NoFixed == [timestamp |-> Undefined, shard_id |-> NoShard, epoch |-> Undefined,
            now |-> BigZero, snowflake |-> <<>>]

\* the static fields as the class initialises them, lines 12, 24 and 36
Statics ==
  /\ EPOCH = 0
  /\ SHARD_ID = 1
  /\ SEQUENCE = 1
  /\ calls = 0
  /\ returned = 0
  /\ first = <<>>
  /\ gen = NoGen
  /\ par = NoPar
  /\ val = NoVal

\* ------------------------------------------------------------------------
\* Operations
\* ------------------------------------------------------------------------

Generated(r, timestamp, shard_id, epoch, now) ==
  /\ SEQUENCE' = r.SEQUENCE
  /\ calls' = calls + 1
  /\ returned' = IF r.threw THEN returned ELSE returned + 1
  /\ gen' = [called |-> TRUE, timestamp |-> timestamp,
             shard_id |-> shard_id, epoch |-> epoch, now |-> now,
             seq |-> SEQUENCE, threw |-> r.threw, id |-> r.val]
  /\ first' = IF calls < KeepFirst /\ ~r.threw
                THEN Append(first, [call |-> calls + 1, seq |-> SEQUENCE,
                                    id |-> r.val])
                ELSE first
  /\ UNCHANGED <<SHARD_ID, EPOCH, par, val>>

\* a call of generate
CallGenerate(timestamp, shard_id, epoch, now) ==
  Generated(generate(timestamp, shard_id, epoch, now),
            timestamp, shard_id, epoch, now)

Parsed(r, snowflake, epoch) ==
  /\ par' = IF r.threw
              THEN [NoPar EXCEPT !.called = TRUE, !.snowflake = snowflake,
                                 !.epoch = epoch, !.threw = TRUE]
              ELSE [called |-> TRUE, snowflake |-> snowflake,
                    epoch |-> epoch, threw |-> FALSE,
                    timestamp |-> r.val.timestamp,
                    shard_id |-> r.val.shard_id,
                    sequence |-> r.val.sequence,
                    binary |-> r.val.binary]
  /\ UNCHANGED <<SEQUENCE, SHARD_ID, EPOCH, calls, returned, first, gen, val>>

\* a call of parse
CallParse(snowflake, epoch) == Parsed(parse(snowflake, epoch), snowflake, epoch)

Validated(r, snowflake) ==
  /\ val' = [called |-> TRUE, snowflake |-> snowflake, threw |-> r.threw,
             result |-> ~r.threw /\ r.val]
  /\ UNCHANGED <<SEQUENCE, SHARD_ID, EPOCH, calls, returned, first, gen, par>>

\* a call of isValid
CallIsValid(snowflake) == Validated(isValid(snowflake), snowflake)

\* ------------------------------------------------------------------------
\* Spec: any interleaving of the three operations, arguments drawn per call
\* ------------------------------------------------------------------------

AnyTimes == {Undefined, NumberArg(IntNum(BigOfInt(1))), NumberArg(TimeNaN)}
AnyShards == {NoShard, NumberArg(IntNum(-1)), NumberArg(FracNum(0))}
AnyEpochs == {Undefined, DateArg(IntNum(BigOfInt(1)))}
AnyClock == {Epoch2020}
AnyStrings == {Str(<<4, 1, 9, 8, 4, 0, 1>>), <<"a", "b", "c">>}
AnyIds == {Rep(17, "1"), Rep(3, "1")}

Init == Statics /\ fixed = NoFixed

DoGenerate ==
  /\ calls < MaxCalls
  /\ \E t \in AnyTimes, s \in AnyShards, e \in AnyEpochs, now \in AnyClock :
       CallGenerate(t, s, e, now)
  /\ UNCHANGED fixed

DoParse ==
  /\ \E sf \in AnyStrings, e \in {Undefined, NumberArg(TimeNaN)} :
       CallParse(sf, e)
  /\ UNCHANGED fixed

DoIsValid ==
  /\ \E sf \in AnyIds : CallIsValid(sf)
  /\ UNCHANGED fixed

Next == DoGenerate \/ DoParse \/ DoIsValid

Spec == Init /\ [][Next]_vars

\* ------------------------------------------------------------------------
\* The fixed-argument runs: a caller that repeats one generate call, and
\* parses what it returned
\* ------------------------------------------------------------------------

RepeatGenerate(bound) ==
  /\ calls < bound
  /\ CallGenerate(fixed.timestamp, fixed.shard_id, fixed.epoch, fixed.now)
  /\ UNCHANGED fixed

\* timestamp t and epoch e passed as numbers, as Dates, or left to the
\* defaults where the defaults have these values
FixedArgs(kind, t, s, e) ==
  [timestamp |-> IF kind = "number" THEN NumberArg(IntNum(t))
                 ELSE IF kind = "Date" THEN DateArg(IntNum(t))
                 ELSE Undefined,
   shard_id |-> IF kind = "default" /\ s = 1 THEN NoShard
                ELSE NumberArg(IntNum(s)),
   epoch |-> IF kind = "Date" THEN DateArg(IntNum(e))
             ELSE IF kind = "default" /\ e = BigZero THEN Undefined
             ELSE NumberArg(IntNum(e)),
   now |-> t,
   snowflake |-> <<>>]

\* SpecRoundTrip: many argument combinations, a few calls each
RoundEpochs == {BigZero, Epoch2020, BigOfInt(-86400000)}
RoundDeltas == {BigOfInt(-1), BigZero, BigOfInt(1), Pow2(41),
                BigSub(Pow2(42), BigOfInt(1)), Pow2(42)}
RoundShards == {-1025, -1, 0, 1, 1023, 1024, 1025}
OtherEpoch == NumberArg(IntNum(BigOfInt(1000)))

InitRoundTrip ==
  /\ Statics
  /\ fixed \in {FixedArgs(kind, BigAdd(e, d), s, e) :
                  kind \in {"number", "Date", "default"}, e \in RoundEpochs,
                  d \in RoundDeltas, s \in RoundShards}

RoundGenerate == RepeatGenerate(RoundCalls)

ParseGenerated ==
  /\ gen.called /\ ~gen.threw
  /\ \E e \in {fixed.epoch, OtherEpoch} : CallParse(gen.id, e)
  /\ UNCHANGED fixed

NextRoundTrip == RoundGenerate \/ ParseGenerated

SpecRoundTrip == InitRoundTrip /\ [][NextRoundTrip]_vars

\* SpecSeq: a few argument combinations, more than 4096 calls each
SeqArgs ==
  { FixedArgs("number", BigOfInt(1), 1, BigZero),
    FixedArgs("Date", BigAdd(Epoch2020, BigSub(Pow2(42), BigOfInt(1))), 1023,
              Epoch2020),
    FixedArgs("default", Epoch2020, 1, BigZero),
    FixedArgs("number", BigOfInt(5), 1025, BigOfInt(5)),
    FixedArgs("number", BigOfInt(1), -1, BigZero) }

InitSeq == Statics /\ fixed \in SeqArgs

SeqGenerate == RepeatGenerate(SeqCalls)

NextSeq == SeqGenerate

SpecSeq == InitSeq /\ [][NextSeq]_vars

\* SpecParse: parse and isValid applied to one input string
Subst(s, p, c) == [s EXCEPT ![p] = c]

FillDigits == {"0", "1", "9"}
OddChars == {"-", "+", " ", "\n", "a", "x", "."}

Literals ==
  { <<"0", "x", "1", "F">>, <<"0", "X", "f", "f">>, <<"0", "b", "1", "0", "1">>,
    <<"0", "o", "1", "7">>, <<"0", "o", "8">>, <<"0", "b">>, <<"-">>,
    <<" ", "1", "2", " ">>, <<"1", " ", "2">>, <<"-", "4", "0", "9", "5">>,
    <<"-", "0", "x", "1">>, <<"1", "e", "3">>, <<"\t", "\n">>,
    Str(<<4, 1, 9, 8, 4, 0, 1>>),
    Str(<<1, 8, 4, 4, 6, 7, 4, 4, 0, 7, 3, 7, 0, 9, 5, 5, 1, 6, 1, 5>>),
    Str(<<1, 8, 4, 4, 6, 7, 4, 4, 0, 7, 3, 7, 0, 9, 5, 5, 1, 6, 1, 6>>) }

ParseStrings ==
  {Rep(n, d) : n \in 0..MaxLen, d \in FillDigits}
  \cup {Subst(Rep(n, d), p, c) :
          n \in 2..MaxLen, d \in {"0", "1"}, p \in {1, 2}, c \in OddChars}
  \cup {Append(Rep(n, "1"), c) : n \in 0..(MaxLen - 1), c \in OddChars}
  \cup Literals

ParseEpochs == {Undefined, DateArg(IntNum(Epoch2020)), NumberArg(TimeNaN)}

InitParse ==
  /\ Statics
  /\ fixed \in {[NoFixed EXCEPT !.snowflake = sf, !.epoch = e] :
                  sf \in ParseStrings, e \in ParseEpochs}

FixedParse == CallParse(fixed.snowflake, fixed.epoch) /\ UNCHANGED fixed

FixedIsValid == CallIsValid(fixed.snowflake) /\ UNCHANGED fixed

NextParse == FixedParse \/ FixedIsValid

SpecParse == InitParse /\ [][NextParse]_vars

\* ------------------------------------------------------------------------
\* Vocabulary of the properties
\* ------------------------------------------------------------------------

DecimalChars == {"0", "1", "2", "3", "4", "5", "6", "7", "8", "9"}

\* s is a run of n decimal digits with lo <= n <= hi
DecimalRun(s, lo, hi) ==
  Len(s) \in lo..hi /\ \A i \in 1..Len(s) : s[i] \in DecimalChars

Num(n) == IntNum(BigOfInt(n))

\* the last generate call: its millisecond timestamp and epoch, its shard id
GenT == TimeValueOf(OrDefault(gen.timestamp, NumberArg(IntNum(gen.now))))
GenE == TimeValueOf(OrDefault(gen.epoch, NumberArg(Num(EPOCH))))
GenS == OrDefault(gen.shard_id, NumberArg(IntNum(SHARD_ID))).n
ParE == TimeValueOf(OrDefault(par.epoch, NumberArg(Num(EPOCH))))

Returned == gen.called /\ ~gen.threw

\* 0 <= x < 2^42
Fits42(x) == ~x.neg /\ Len(x.mag) <= 42

Delta == BigSub(GenT.v, GenE.v)

\* the last generate call had 0 <= timestamp_ms - epoch_ms < 2^42
InRange == GenT.k = "int" /\ GenE.k = "int" /\ Fits42(Delta)

\* the last parse call was given the identifier the last generate returned
ParsedGenerated == Returned /\ par.called /\ par.snowflake = gen.id

\* the sequence field of the identifier the last generate call returned
SequenceField == parse(gen.id, gen.epoch).val.sequence

\* ------------------------------------------------------------------------
\* C1  round trip
\* ------------------------------------------------------------------------

\* C1 as stated: for a timestamp T that is non-negative and fits 42 bits, a
\* shard id S in 0..1023 and the observed sequence value Q, parsing with
\* epoch E what generate({timestamp: T, shard_id: S, epoch: E}) returned
\* yields timestamp T + E, shard_id S and sequence Q.
C1_RoundTripStated ==
  (/\ ParsedGenerated
   /\ GenT.k = "int" /\ GenE.k = "int" /\ Fits42(GenT.v)
   /\ GenS.k = "int" /\ GenS.v \in 0..1023
   /\ ParE = GenE)
  => /\ ~par.threw
     /\ par.timestamp = IntNum(BigAdd(GenT.v, GenE.v))
     /\ par.shard_id = Num(GenS.v)
     /\ par.sequence = Num(gen.seq % 4096)

\* C1 amended: for integer millisecond values T and E with
\* 0 <= T - E < 2^42, a shard id S in 0..1023 and the counter value Q the
\* call used, parsing with epoch E what generate({timestamp: T, shard_id: S,
\* epoch: E}) returned yields timestamp T, shard_id S and sequence
\* Q mod 4096.
C1_RoundTrip ==
  (/\ ParsedGenerated
   /\ InRange
   /\ GenS.k = "int" /\ GenS.v \in 0..1023
   /\ ParE = GenE)
  => /\ ~par.threw
     /\ par.timestamp = IntNum(GenT.v)
     /\ par.shard_id = Num(GenS.v)
     /\ par.sequence = Num(gen.seq % 4096)

\* a round trip with a non-zero epoch, the widest timestamp delta and the
\* largest shard id, on a call after the first
C1_Witness ==
  /\ ParsedGenerated /\ InRange /\ ParE = GenE
  /\ GenE.v = Epoch2020
  /\ Len(Delta.mag) = 42
  /\ GenS = IntNum(1023)
  /\ gen.seq = 2
  /\ ~par.threw

\* ------------------------------------------------------------------------
\* C2  sequence values of repeated calls
\* ------------------------------------------------------------------------

\* C2 as stated: the k-th of the repeated generate calls, k = 1..4097,
\* returns an identifier whose sequence field is (k - 1) mod 4096: 0 first,
\* 4095 on the 4096th call, 0 again on the 4097th.
C2_SequenceStated ==
  (Returned /\ calls <= 4097) => SequenceField = Num((calls - 1) % 4096)

\* C2 amended: with a timestamp delta in 0..2^42-1 and a shard id >= 0, the
\* k-th of the repeated generate calls returns an identifier whose sequence
\* field is k mod 4096: 1 first (SEQUENCE starts at 1), 4095 on the 4095th
\* call, 0 on the 4096th and 1 again on the 4097th.
C2_Sequence ==
  (Returned /\ InRange /\ GenS.k = "int" /\ GenS.v >= 0)
  => SequenceField = Num(calls % 4096)

\* the 4097th call, whose sequence field is that of the first
C2_Witness ==
  /\ Returned /\ InRange /\ GenS.k = "int" /\ GenS.v >= 0
  /\ calls = 4097
  /\ SequenceField = Num(1)

\* ------------------------------------------------------------------------
\* C3  shard wrap
\* ------------------------------------------------------------------------

\* C3: for every integer shard id and in-range timestamp delta generate
\* raises no error, and the shard field of the identifier it returns is
\* shard_id mod 1024, a value in 0..1023.
C3_ShardWrap ==
  /\ (gen.called /\ InRange /\ GenS.k = "int") => ~gen.threw
  /\ (ParsedGenerated /\ InRange /\ GenS.k = "int" /\ ParE.k = "int")
     => /\ ~par.threw
        /\ par.shard_id = Num(GenS.v % 1024)

\* ------------------------------------------------------------------------
\* C6  encoding formula
\* ------------------------------------------------------------------------

\* the 64 bits delta * 2^22 + shard * 2^12 + sequence, field by field
Fields(delta, shard, sequence) ==
  StripZeros(Pad(delta.mag, 42) \o NatToDigits(shard, 2, 10)
             \o NatToDigits(sequence, 2, 12))

Id4198401 == <<"4", "1", "9", "8", "4", "0", "1">>

\* C6: with a timestamp delta in 0..2^42-1, a shard id >= 0 and counter
\* value c, generate returns the decimal text of
\* delta * 2^22 + (shard_id mod 1024) * 2^12 + (c mod 4096); with epoch 0,
\* timestamp 1, shard id 1 and counter 1 it returns "4198401", which parse
\* with epoch 0 takes apart into timestamp 1, shard_id 1 and sequence 1.
C6_Encoding ==
  /\ (Returned /\ InRange /\ GenS.k = "int" /\ GenS.v >= 0)
     => /\ DecimalRun(gen.id, 1, 20)
        /\ StringToBigInt(gen.id)
             = Ret(Big(FALSE, Fields(Delta, GenS.v % 1024, gen.seq % 4096)))
  /\ (Returned /\ GenT = Num(1) /\ GenE = Num(0) /\ GenS = IntNum(1)
      /\ gen.seq = 1)
     => /\ gen.id = Id4198401
        /\ parse(gen.id, NumberArg(Num(0))).val.timestamp = Num(1)
        /\ parse(gen.id, NumberArg(Num(0))).val.shard_id = Num(1)
        /\ parse(gen.id, NumberArg(Num(0))).val.sequence = Num(1)

\* a call with a shard id beyond 1023 and a counter beyond 4095
C6_Witness ==
  /\ Returned /\ InRange
  /\ GenS = IntNum(1025)
  /\ gen.seq = 4097

\* ------------------------------------------------------------------------
\* C8  absolute timestamp recovery
\* ------------------------------------------------------------------------

\* C8: for an identifier generated from timestamp T and epoch E with
\* 0 <= T - E < 2^42, parse with epoch E returns timestamp T, and parse with
\* another epoch E' returns T - E + E', which is not T, without raising.
C8_Timestamp ==
  (ParsedGenerated /\ InRange /\ ParE.k = "int")
  => /\ ~par.threw
     /\ ParE = GenE => par.timestamp = IntNum(GenT.v)
     /\ ParE # GenE => /\ par.timestamp = IntNum(BigAdd(Delta, ParE.v))
                       /\ par.timestamp # IntNum(GenT.v)

\* ------------------------------------------------------------------------
\* C9  uniqueness within a millisecond
\* ------------------------------------------------------------------------

\* C9: of the repeated generate calls (timestamp delta in 0..2^42-1, shard
\* id >= 0), a call returns the identifier of an earlier call exactly when
\* it comes a multiple of 4096 calls later; any two calls less than 4096
\* apart return different identifiers and use different sequence values.
\* The earlier calls compared with are the first KeepFirst ones.
C9_Unique ==
  (Returned /\ InRange /\ GenS.k = "int" /\ GenS.v >= 0)
  => \A k \in 1..Len(first) :
       IF (calls - first[k].call) % 4096 = 0
         THEN gen.id = first[k].id
         ELSE /\ gen.id # first[k].id
              /\ gen.seq % 4096 # first[k].seq % 4096

\* the 4098th call returns what the 2nd returned, and not what the 1st did
C9_Witness ==
  /\ Returned /\ InRange /\ GenS.k = "int" /\ GenS.v >= 0
  /\ calls = 4098
  /\ Len(first) >= 2
  /\ gen.id = first[2].id
  /\ gen.id # first[1].id

\* ------------------------------------------------------------------------
\* C4  isValid
\* ------------------------------------------------------------------------

\* C4: isValid raises for no input string; it returns true exactly when the
\* string is made of 17 to 22 decimal digits and parse of it with the
\* default epoch does not raise, and false otherwise.
C4_IsValid ==
  val.called
  => /\ ~val.threw
     /\ val.result <=> /\ DecimalRun(val.snowflake, 17, 22)
                       /\ ~parse(val.snowflake, Undefined).threw

\* isValid has accepted a string of 22 digits
C4_Witness ==
  /\ val.called /\ ~val.threw /\ val.result
  /\ Len(val.snowflake) = 22

\* ------------------------------------------------------------------------
\* C5  what the operations change
\* ------------------------------------------------------------------------

\* the last generate call was given arguments line 64 or 65 cannot convert:
\* a timestamp or epoch that is no time value, or a shard id that is no
\* integer
Unconvertible == GenT.k = "nan" \/ GenE.k = "nan" \/ GenS.k # "int"

\* C5 as stated: every generate call adds exactly 1 to SEQUENCE whatever its
\* arguments and leaves SHARD_ID and EPOCH alone, parse and isValid leave
\* all three alone, and SEQUENCE is its initial value plus the number of
\* generate calls made.
C5_FrameStated ==
  [][/\ calls' = calls + 1
        => SEQUENCE' = SEQUENCE + 1 /\ UNCHANGED <<SHARD_ID, EPOCH>>
     /\ calls' = calls => UNCHANGED <<SEQUENCE, SHARD_ID, EPOCH>>
     /\ SEQUENCE' = 1 + calls']_vars

\* C5 amended: a generate call that returns adds exactly 1 to SEQUENCE, one
\* that raises (which it does exactly when its timestamp or epoch is no time
\* value or its shard id no integer) leaves SEQUENCE alone, and both leave
\* SHARD_ID and EPOCH alone; parse and isValid leave all three alone; and
\* SEQUENCE is its initial value plus the number of generate calls that
\* returned.
C5_Frame ==
  /\ [](gen.called => (gen.threw <=> Unconvertible))
  /\ [][/\ calls' = calls + 1
           => /\ SEQUENCE' = SEQUENCE + (IF gen'.threw THEN 0 ELSE 1)
              /\ UNCHANGED <<SHARD_ID, EPOCH>>
        /\ calls' = calls => UNCHANGED <<SEQUENCE, SHARD_ID, EPOCH>>
        /\ SEQUENCE' = 1 + returned']_vars

\* two generate calls of which the second raised, with a parse and an
\* isValid call made as well
C5_Witness ==
  /\ calls = 2 /\ returned = 1 /\ SEQUENCE = 2
  /\ gen.threw /\ Unconvertible
  /\ par.called /\ val.called

\* ------------------------------------------------------------------------
\* C7  strings parse refuses
\* ------------------------------------------------------------------------

BinaryChars == {"0", "1"}
OctalChars == {"0", "1", "2", "3", "4", "5", "6", "7"}
HexChars == DecimalChars \cup {"a", "b", "c", "d", "e", "f",
                               "A", "B", "C", "D", "E", "F"}

\* t is "0" and one of the marks followed by at least one of the digits
Prefixed(t, marks, digits) ==
  /\ Len(t) >= 3 /\ t[1] = "0" /\ t[2] \in marks
  /\ \A i \in 3..Len(t) : t[i] \in digits

\* t is empty, a 0x, 0o or 0b literal, or decimal digits with an optional
\* sign
IntegerText(t) ==
  \/ t = <<>>
  \/ Prefixed(t, {"x", "X"}, HexChars)
  \/ Prefixed(t, {"o", "O"}, OctalChars)
  \/ Prefixed(t, {"b", "B"}, BinaryChars)
  \/ DecimalRun(t, 1, Len(t))
  \/ Len(t) >= 2 /\ t[1] \in {"+", "-"} /\ DecimalRun(Tail(t), 1, Len(t) - 1)

\* C7 as stated: with a usable epoch, parse raises for every string that is
\* not a run of one or more decimal digits (the empty string, white space, a
\* leading minus sign, "0x1F", letters) and returns a record for every
\* string of decimal digits.
C7_MalformedStated ==
  (par.called /\ ParE.k = "int")
  => (par.threw <=> ~DecimalRun(par.snowflake, 1, Len(par.snowflake)))

\* C7 amended: parse raises exactly when the string, with the white space
\* around it removed, is neither empty, nor a 0x, 0o or 0b literal, nor a
\* run of decimal digits with an optional sign, or when the epoch is no time
\* value; so it returns a record for every string of decimal digits, and
\* also for the empty string, white space, "-4095" and "0x1F".
C7_Malformed ==
  par.called
  => (par.threw <=> (~IntegerText(Trim(par.snowflake)) \/ ParE.k = "nan"))

\* parse has returned a record for the hexadecimal literal "0x1F"
C7_Witness ==
  /\ par.called /\ ~par.threw
  /\ par.snowflake = <<"0", "x", "1", "F">>
  /\ par.sequence = Num(31)

\* ------------------------------------------------------------------------
\* C10  records of the strings isValid accepts
\* ------------------------------------------------------------------------

\* bits lo..hi of a magnitude, bit 0 the lowest, as a number
BitField(mag, lo, hi) ==
  Num(DigitsToNat(SubSeq(Zeros(hi + 1) \o mag,
                         Len(mag) + 1, Len(mag) + hi + 1 - lo), 2))

\* C10: for a string isValid accepts, parse with a usable epoch returns a
\* record whose binary has exactly 64 characters, whose shard_id is bits
\* 42..51 of the 64 (bits 12..21 counted from the lowest) and whose sequence
\* is the lowest 12 bits.
C10_WellFormed ==
  (/\ val.called /\ val.result
   /\ par.called /\ par.snowflake = val.snowflake /\ ParE.k = "int")
  => /\ ~par.threw
     /\ Len(par.binary) = 64
     /\ par.shard_id
          = BitField(MagFromDecimal(DigitVals(par.snowflake)), 12, 21)
     /\ par.sequence
          = BitField(MagFromDecimal(DigitVals(par.snowflake)), 0, 11)

====
